---- MODULE Spec2Model ----
(***************************************************************************)
(* Model of the ishtrak issue tracker's request handlers: issue creation,  *)
(* resolution generation with retrieval (RAG), rating and knowledge-base   *)
(* promotion, resolve, SOP generation and the retrieve endpoint.           *)
(*                                                                         *)
(* Every handler is an async function; each awaited store operation is one *)
(* atomic step and handlers interleave between steps.  A call to the       *)
(* generation backend touches no shared state and is folded into the store *)
(* write that follows it.  Texts are sequences of whitespace-separated     *)
(* tokens.  averageRating is a JavaScript double in the source; the model  *)
(* keeps it as an exact fraction <<numerator, denominator>> in lowest      *)
(* terms.                                                                  *)
(***************************************************************************)
EXTENDS Integers, Sequences, FiniteSets, TLC

(* ------------------------------ bounds -------------------------------- *)

\* issues that can be created
MaxIssues == 1
\* handlers that can be in flight at the same time
MaxConcurrent == 2
\* requests to the multi-step endpoints accepted over a run
MaxRequests == 4
\* background generate-sop triggers in flight per issue
MaxPending == 1

IssueIds == 1..MaxIssues
Slots == 1..MaxConcurrent

(* ------------------------------ texts --------------------------------- *)

\* toLowerCase() followed by replace(/[^\w\s]/g, '') on one token, as a table
\* over the tokens the model uses
NormalForm(tok) ==
  CASE tok = "Database" -> "database"
    [] tok = "Infrastructure" -> "infrastructure"
    [] tok = "Application" -> "application"
    [] tok = "Network" -> "network"
    [] tok = "Security" -> "security"
    [] tok = "APPLICATION" -> "application"
    [] tok = "Issue" -> "issue"
    [] tok = "Resolution" -> "resolution"
    [] tok = "Plan" -> "plan"
    [] tok = "STANDARD" -> "standard"
    [] tok = "OPERATING" -> "operating"
    [] tok = "PROCEDURE:" -> "procedure"
    [] tok = "DATABASE" -> "database"
    [] tok = "INFRASTRUCTURE" -> "infrastructure"
    [] tok = "INCIDENT" -> "incident"
    [] tok = "RESPONSE" -> "response"
    [] tok = "LEARNED" -> "learned"
    [] tok = "FROM" -> "from"
    [] tok = "SIMILAR" -> "similar"
    [] tok = "ISSUES" -> "issues"
    [] tok = "Login" -> "login"
    [] tok = "load." -> "load"
    [] tok = "..." -> ""
    [] OTHER -> tok

StopWords ==
  {"this", "that", "with", "from", "they", "have", "been", "said", "each",
   "which", "their", "time", "will", "about", "after", "many", "only", "some",
   "also", "what", "when", "make", "like", "into", "than", "call", "come",
   "could", "first", "work", "down", "may", "should", "through", "between",
   "must", "such", "under", "well", "where", "much", "before", "right", "too",
   "any", "same", "how", "look", "little", "world", "very", "still", "hand",
   "old", "life", "tell", "here", "show", "even", "back", "think", "year",
   "give", "take", "just", "good", "most", "know", "over", "great", "long",
   "find"}

\* the least length a keyword has: filter(word => word.length > 3)
MinKeywordLen == 4

InSeq(x, s) == \E i \in 1..Len(s) : s[i] = x

RECURSIVE Unique(_)
\* [...new Set(words)]: first occurrences, in order
Unique(s) ==
  IF s = <<>> THEN <<>>
  ELSE LET r == Unique(SubSeq(s, 1, Len(s) - 1))
           x == s[Len(s)]
       IN IF InSeq(x, r) THEN r ELSE Append(r, x)

\* the length filter left out
KeepWordAnyLength(w) == w \notin StopWords

KeepWord(w) == Len(w) >= MinKeywordLen /\ w \notin StopWords

extractKeywords(text) ==
  Unique(SelectSeq([i \in 1..Len(text) |-> NormalForm(text[i])], KeepWord))

(* extractKeywords over a text given character by character *)

\* toLowerCase() on one character
LowerCase(c) ==
  CASE c = "P" -> "p"
    [] c = "T" -> "t"
    [] OTHER -> c

\* \w and \s of the regular expressions, case already folded
WordChars ==
  {"a", "b", "c", "d", "e", "f", "g", "h", "i", "j", "k", "l", "m", "n", "o",
   "p", "q", "r", "s", "t", "u", "v", "w", "x", "y", "z", "0", "1", "2", "3",
   "4", "5", "6", "7", "8", "9", "_"}
SpaceChars == {" ", "\t", "\n"}

KeptByReplace(c) == c \in WordChars \/ c \in SpaceChars

\* text.toLowerCase().replace(/[^\w\s]/g, '')
Cleaned(chars) ==
  SelectSeq([i \in 1..Len(chars) |-> LowerCase(chars[i])], KeptByReplace)

RECURSIVE SplitWords(_)
\* split(/\s+/): a run of white space separates two words, also an empty
\* first or last one; the empty text is one empty word
SplitWords(chars) ==
  IF chars = <<>> THEN << <<>> >>
  ELSE LET front == SubSeq(chars, 1, Len(chars) - 1)
           c == chars[Len(chars)]
           r == SplitWords(front)
       IN IF c \in SpaceChars
          THEN IF front # <<>> /\ front[Len(front)] \in SpaceChars
               THEN r ELSE Append(r, <<>>)
          ELSE [r EXCEPT ![Len(r)] = Append(@, c)]

RECURSIVE AsString(_)
\* the word a sequence of characters spells
AsString(chars) ==
  IF chars = <<>> THEN "" ELSE Head(chars) \o AsString(Tail(chars))

KeepChars(w) == KeepWord(AsString(w))

\* extractKeywords(text), the keywords spelled out
extractKeywordsOfText(chars) ==
  Unique(SelectSeq(SplitWords(Cleaned(chars)), KeepChars))

(* ---------------------------- fractions ------------------------------- *)

RECURSIVE GCD(_, _)
GCD(a, b) == IF b = 0 THEN a ELSE GCD(b, a % b)

Frac(n, d) == LET g == GCD(n, d) IN <<n \div g, d \div g>>

FracLess(a, b) == a[1] * b[2] < b[1] * a[2]

(* ------------------------- inputs of the run --------------------------- *)

\* what a client may submit as a new issue: title, description, category
IssueInputs ==
  { [title |-> <<"Database", "timeout">>,
     description |-> <<"under", "load.">>,
     category |-> "database"] }

\* what the generation backend may answer when it is available
BackendTexts == { <<"restart", "database", "pool">> }

\* rating values a client may send; 0 stands for a missing rating
RatingInputs == {0, 3, 4, 5, 6}

\* queries, content types and limits sent to the retrieve endpoint
QueryInputs == { <<>>, <<"Database", "pool", "timeout">> }
ContentTypes == {"resolution", "sop"}
LimitInputs == {1, 5}

(* --------------------------- retrieval -------------------------------- *)

Max(a, b) == IF a >= b THEN a ELSE b
Min(a, b) == IF a <= b THEN a ELSE b

\* averageRating: { gte: 3.5 }
QualityFloor == <<7, 2>>
\* similarityScore > 0.1
RelevanceFloor == <<1, 10>>
\* take: 50 in the retrieve endpoint, take: 20 in resolution generation
EndpointTake == 50
EmbeddedTake == 20
EmbeddedLimit == 3
\* Math.min(entry.usageCount / 10, 1)
UsageCap == 10

\* orderBy averageRating desc, usageCount desc
RatedBefore(a, b) ==
  \/ FracLess(b.averageRating, a.averageRating)
  \/ a.averageRating = b.averageRating /\ a.usageCount > b.usageCount

RECURSIVE OrderByRating(_)
\* the store's ordered read; rows that tie keep their insertion order
OrderByRating(s) ==
  IF s = <<>> THEN <<>>
  ELSE LET r == OrderByRating(SubSeq(s, 1, Len(s) - 1))
           x == s[Len(s)]
           k == Cardinality({i \in 1..Len(r) : ~RatedBefore(x, r[i])})
       IN SubSeq(r, 1, k) \o <<x>> \o SubSeq(r, k + 1, Len(r))

Take(s, n) == SubSeq(s, 1, Min(n, Len(s)))

\* the read without the condition on averageRating
findManyKbAnyRating(table, ctype, take) ==
  LET Eligible(e) == e.contentType = ctype
  IN Take(OrderByRating(SelectSeq(table, Eligible)), take)

\* db.knowledgeBase.findMany({where: {contentType, averageRating >= 3.5},
\*   orderBy, take})
findManyKb(table, ctype, take) ==
  LET Eligible(e) == /\ e.contentType = ctype
                     /\ ~FracLess(e.averageRating, QualityFloor)
  IN Take(OrderByRating(SelectSeq(table, Eligible)), take)

\* the blend with the rating weighted 0.1 instead of 0.3
finalScoreRatingTenth(common, nq, nc, avg, usage) ==
  LET m == Max(nq, nc)
  IN IF m = 0 THEN <<0, 0>>
     ELSE Frac(60 * common * avg[2] + 2 * avg[1] * m
                 + Min(usage, UsageCap) * m * avg[2],
               100 * m * avg[2])

\* The blended score as a fraction; <<0, 0>> stands for NaN, which 0/0 gives
\* when neither the query nor the entry has a keyword.
finalScore(common, nq, nc, avg, usage) ==
  LET m == Max(nq, nc)
  IN IF m = 0 THEN <<0, 0>>
     ELSE Frac(60 * common * avg[2] + 6 * avg[1] * m
                 + Min(usage, UsageCap) * m * avg[2],
               100 * m * avg[2])

IsNaN(x) == x[2] = 0

scoreEntry(queryKeywords, entry) ==
  LET contentKeywords == extractKeywords(entry.content)
      InContent(k) == InSeq(k, contentKeywords)
      commonKeywords == SelectSeq(queryKeywords, InContent)
  IN [id |-> entry.id,
      content |-> entry.content,
      averageRating |-> entry.averageRating,
      similarityScore |-> finalScore(Len(commonKeywords), Len(queryKeywords),
                                     Len(contentKeywords), entry.averageRating,
                                     entry.usageCount),
      matchedKeywords |-> commonKeywords]

\* the filter left out
AboveFloorAlways(e) == TRUE

\* entry.similarityScore > 0.1; a comparison with NaN is false
AboveFloor(e) ==
  ~IsNaN(e.similarityScore) /\ FracLess(RelevanceFloor, e.similarityScore)

RECURSIVE SortByScoreUnstable(_)
\* a sort that puts an entry before the entries of equal score seen earlier
SortByScoreUnstable(s) ==
  IF s = <<>> THEN <<>>
  ELSE LET r == SortByScoreUnstable(SubSeq(s, 1, Len(s) - 1))
           x == s[Len(s)]
           k == Cardinality({i \in 1..Len(r) :
                   FracLess(x.similarityScore, r[i].similarityScore)})
       IN SubSeq(r, 1, k) \o <<x>> \o SubSeq(r, k + 1, Len(r))

RECURSIVE SortByScore(_)
\* sort((a, b) => b.similarityScore - a.similarityScore), a stable sort
SortByScore(s) ==
  IF s = <<>> THEN <<>>
  ELSE LET r == SortByScore(SubSeq(s, 1, Len(s) - 1))
           x == s[Len(s)]
           k == Cardinality({i \in 1..Len(r) :
                   ~FracLess(r[i].similarityScore, x.similarityScore)})
       IN SubSeq(r, 1, k) \o <<x>> \o SubSeq(r, k + 1, Len(r))

\* slice(0, limit): a negative limit counts from the end of the array
Slice(s, limit) ==
  IF limit >= 0 THEN SubSeq(s, 1, Min(limit, Len(s)))
  ELSE SubSeq(s, 1, Max(Len(s) + limit, 0))

\* the scoring, filtering, ranking and truncation both retrievals share
rankEntries(candidates, query, limit) ==
  LET queryKeywords == extractKeywords(query)
      scored == [i \in 1..Len(candidates) |->
                   scoreEntry(queryKeywords, candidates[i])]
  IN Slice(SortByScore(SelectSeq(scored, AboveFloor)), limit)

\* Math.round(entry.similarityScore * 100) / 100
roundScore(x) == Frac((200 * x[1] + x[2]) \div (2 * x[2]), 100)

\* an entry as the retrieve endpoint's response carries it
responseEntry(e) ==
  [id |-> e.id, content |-> e.content, averageRating |-> e.averageRating,
   similarityScore |-> roundScore(e.similarityScore),
   matchedKeywords |-> e.matchedKeywords]

\* retrieveRelevantContent(query, category) of resolution generation
retrieveRelevantContent(table, query) ==
  rankEntries(findManyKb(table, "resolution", EmbeddedTake), query,
              EmbeddedLimit)

(* --------------------------- generation ------------------------------- *)

\* categories with a resolution template of their own
ResolutionTemplateKeys ==
  {"infrastructure", "application", "database", "network", "security"}
\* categories with an SOP template of their own
SopTemplateKeys == {"infrastructure", "application", "database"}

\* Names every object literal answers to without having them as keys of its
\* own: templates[issue.category] finds them on Object.prototype.
InheritedKeys ==
  {"constructor", "toString", "valueOf", "hasOwnProperty", "__proto__"}

\* what a template function returns when it returns no string: the value
\* undefined, or the inherited function or object itself
UndefinedValue == <<"[undefined]">>
InheritedValue == <<"[object]">>

IsText(t) == t # UndefinedValue /\ t # InheritedValue

RECURSIVE Flatten(_)
Flatten(ss) == IF ss = <<>> THEN <<>> ELSE Head(ss) \o Flatten(Tail(ss))

\* the first line of the resolution template stored under a key
ResolutionHeading(key) ==
  CASE key = "infrastructure" ->
         <<"Infrastructure", "Issue", "Resolution", "Plan", "for">>
    [] key = "application" -> <<"Application", "Issue", "Resolution", "for">>
    [] key = "database" -> <<"Database", "Issue", "Resolution", "for">>
    [] key = "network" -> <<"Network", "Issue", "Resolution", "for">>
    [] key = "security" -> <<"Security", "Issue", "Resolution", "for">>

\* the first line of the SOP template stored under a key
SopHeading(key) ==
  <<"STANDARD", "OPERATING", "PROCEDURE:">>
    \o (CASE key = "infrastructure" -> <<"INFRASTRUCTURE">>
          [] key = "application" -> <<"APPLICATION">>
          [] key = "database" -> <<"DATABASE">>)
    \o <<"INCIDENT", "RESPONSE">>

\* baseTemplates[issue.category] || baseTemplates.infrastructure, then one
\* element of what was found: an own key gives its template with the title in
\* the heading (the numbered steps after the heading are the same for every
\* issue and left out), an inherited name gives a function or object whose
\* element is undefined, any other category gives the infrastructure
\* template.
baseTemplate(issue) ==
  IF issue.category \in ResolutionTemplateKeys
  THEN ResolutionHeading(issue.category) \o issue.title
  ELSE IF issue.category \in InheritedKeys
  THEN UndefinedValue
  ELSE ResolutionHeading("infrastructure") \o issue.title

\* The fallback resolution text.  Retrieved entries add the section that
\* echoes their content and first keywords; interpolated into that text an
\* undefined template reads "undefined".
generateResolutionTemplate(issue, relevantContent) ==
  LET base == baseTemplate(issue)
      learned == Flatten([i \in 1..Len(relevantContent) |->
                    relevantContent[i].content \o <<"...">>
                      \o Take(relevantContent[i].matchedKeywords, 3)])
  IN IF Len(relevantContent) > 0
     THEN (IF base = UndefinedValue THEN <<"undefined">> ELSE base)
            \o <<"LEARNED", "FROM", "SIMILAR", "ISSUES">> \o learned
     ELSE base

\* The fallback SOP text: templates[issue.category] ||
\* templates.infrastructure; it quotes the title and not the resolution.
generateSOPTemplate(issue) ==
  IF issue.category \in SopTemplateKeys
  THEN SopHeading(issue.category) \o issue.title
  ELSE IF issue.category \in InheritedKeys
  THEN InheritedValue
  ELSE SopHeading("infrastructure") \o issue.title

\* what generateResolutionWithOllama can return: a backend answer, or the
\* template when the backend call fails
ResolutionTexts(issue, relevantContent) ==
  BackendTexts \cup {generateResolutionTemplate(issue, relevantContent)}

\* what generateSOPWithOllama can return
SopTexts(issue) == BackendTexts \cup {generateSOPTemplate(issue)}

(* ------------------------------ state --------------------------------- *)

VARIABLES
  issues,        \* issue id -> the Issue row; status "none" before creation
  resolutions,   \* the AiResolution table; a row's id is its index
  sops,          \* the AiSop table
  kb,            \* the KnowledgeBase table; a row's id is its index
  ratingEvents,  \* number of rows of the AiRating table
  pendingSop,    \* issue id -> unawaited generate-sop fetches in flight
  req,           \* slot -> the handler running in it, with its locals
  accepted,      \* requests that got past their first store operation
  lastResponse,  \* the response returned last: route, HTTP status, error
  probe          \* a direct application of a pure function: arguments, result

vars == <<issues, resolutions, sops, kb, ratingEvents, pendingSop, req,
          accepted, lastResponse, probe>>

NoIssue == [status |-> "none", title |-> <<>>, description |-> <<>>,
            category |-> ""]

\* a slot's locals; caught holds what the handler's inner catch blocks have
\* logged with console.error
Blank == [kind |-> "idle", pc |-> "done", issueId |-> 0, resolutionId |-> 0,
          rating |-> 0, relevant |-> <<>>, text |-> <<>>, pending |-> {},
          found |-> <<>>, caught |-> {}]

NoResponse == [kind |-> "none", status |-> 0, error |-> ""]

\* no pure function is applied on its own while the handlers run
NoProbe == [fn |-> "none", args |-> <<>>, applied |-> FALSE, result |-> <<>>]

Init ==
  /\ issues = [i \in IssueIds |-> NoIssue]
  /\ resolutions = <<>>
  /\ sops = <<>>
  /\ kb = <<>>
  /\ ratingEvents = 0
  /\ pendingSop = [i \in IssueIds |-> 0]
  /\ req = [s \in Slots |-> Blank]
  /\ accepted = 0
  /\ lastResponse = NoResponse
  /\ probe = NoProbe

Free(s) == req[s].pc = "done"

\* a new request takes the first free slot
CanAccept(s) ==
  /\ accepted < MaxRequests
  /\ Free(s)
  /\ \A t \in Slots : t < s => ~Free(t)

Response(kind, status, error) ==
  [kind |-> kind, status |-> status, error |-> error]

\* the handler in slot s returns
Return(s, status, error) ==
  /\ req' = [req EXCEPT ![s] = Blank]
  /\ lastResponse' = Response(req[s].kind, status, error)

\* the handler in slot s goes on to its next store operation
Continue(s, r) ==
  /\ req' = [req EXCEPT ![s] = r]
  /\ UNCHANGED lastResponse

Exists(i) == i \in IssueIds /\ issues[i].status # "none"

(* --------------------------- issue routes ----------------------------- *)

\* POST /api/issues: the new issue is open
CreateIssue(i, input) ==
  /\ i \in IssueIds
  /\ issues[i].status = "none"
  /\ \A j \in IssueIds : j < i => issues[j].status # "none"
  /\ issues' = [issues EXCEPT ![i] =
       [status |-> "open", title |-> input.title,
        description |-> input.description, category |-> input.category]]
  /\ lastResponse' = Response("createIssue", 200, "")
  /\ UNCHANGED <<resolutions, sops, kb, ratingEvents, pendingSop, req, accepted>>
  /\ UNCHANGED probe

\* POST /api/issues/[id]/resolve: one store update, then the unawaited fetch
\* of generate-sop; an unknown id makes the update throw (500)
ResolveIssue(i) ==
  /\ i \in IssueIds
  /\ pendingSop[i] < MaxPending
  /\ IF Exists(i)
     THEN /\ issues' = [issues EXCEPT ![i].status = "resolved"]
          /\ pendingSop' = [pendingSop EXCEPT ![i] = @ + 1]
          /\ lastResponse' = Response("resolve", 200, "")
     ELSE /\ UNCHANGED <<issues, pendingSop>>
          /\ lastResponse' = Response("resolve", 500, "Failed to resolve issue")
  /\ UNCHANGED <<resolutions, sops, kb, ratingEvents, req, accepted>>
  /\ UNCHANGED probe

\* the unawaited fetch fails; its catch only logs
DropSopTrigger(i) ==
  /\ i \in IssueIds
  /\ pendingSop[i] > 0
  /\ pendingSop' = [pendingSop EXCEPT ![i] = @ - 1]
  /\ UNCHANGED <<issues, resolutions, sops, kb, ratingEvents, req, accepted,
                 lastResponse>>
  /\ UNCHANGED probe

(* ------------------- POST /api/ai/generate-resolution ----------------- *)

HasResolution(i) == \E k \in 1..Len(resolutions) : resolutions[k].issueId = i

Ids(entries) == {entries[k].id : k \in 1..Len(entries)}

\* request accepted; issueId 0 stands for a body without issueId (400);
\* db.issue.findUnique finds the issue or the handler answers 404
StartGenerateResolution(s, i) ==
  /\ CanAccept(s)
  /\ i \in 0..MaxIssues
  /\ IF i = 0
     THEN /\ lastResponse' = Response("generateResolution", 400, "Missing issueId")
          /\ UNCHANGED <<req, accepted>>
     ELSE IF ~Exists(i)
     THEN /\ lastResponse' = Response("generateResolution", 404, "Issue not found")
          /\ UNCHANGED <<req, accepted>>
     ELSE /\ Continue(s, [Blank EXCEPT !.kind = "generateResolution",
                                       !.pc = "findResolution", !.issueId = i])
          /\ accepted' = accepted + 1
  /\ UNCHANGED <<issues, resolutions, sops, kb, ratingEvents, pendingSop>>
  /\ UNCHANGED probe

\* the idempotency guard left out
ResolutionGuardAlwaysPasses(i) == TRUE

\* db.aiResolution.findFirst({where: {issueId}}): the idempotency guard
ResolutionGuardPasses(i) == ~HasResolution(i)

GenResFindResolution(s) ==
  /\ req[s].kind = "generateResolution" /\ req[s].pc = "findResolution"
  /\ IF ResolutionGuardPasses(req[s].issueId)
     THEN Continue(s, [req[s] EXCEPT !.pc = "retrieve"])
     ELSE Return(s, 400, "Resolution already exists for this issue")
  /\ UNCHANGED <<issues, resolutions, sops, kb, ratingEvents, pendingSop, accepted>>
  /\ UNCHANGED probe

\* retrieveRelevantContent(title + ' ' + description, category)
GenResRetrieve(s) ==
  /\ req[s].kind = "generateResolution" /\ req[s].pc = "retrieve"
  /\ LET issue == issues[req[s].issueId]
     IN Continue(s, [req[s] EXCEPT
          !.pc = "generate",
          !.relevant = retrieveRelevantContent(kb,
                         issue.title \o issue.description)])
  /\ UNCHANGED <<issues, resolutions, sops, kb, ratingEvents, pendingSop, accepted>>
  /\ UNCHANGED probe

\* generateResolutionWithOllama, then db.aiResolution.create, which throws
\* for a resolutionText that is no string (500)
GenResGenerate(s) ==
  /\ req[s].kind = "generateResolution" /\ req[s].pc = "generate"
  /\ \E text \in ResolutionTexts(issues[req[s].issueId], req[s].relevant) :
       IF IsText(text)
       THEN /\ resolutions' = Append(resolutions,
                 [issueId |-> req[s].issueId, resolutionText |-> text,
                  userRating |-> 0])
            /\ Continue(s, [req[s] EXCEPT !.pc = "updateStatus",
                                          !.pending = Ids(req[s].relevant),
                                          !.relevant = <<>>])
       ELSE /\ UNCHANGED resolutions
            /\ Return(s, 500, "Failed to generate AI resolution")
  /\ UNCHANGED <<issues, sops, kb, ratingEvents, pendingSop, accepted>>
  /\ UNCHANGED probe

\* db.issue.update({data: {status: 'in_progress'}}); with nothing retrieved
\* the handler returns right after it
GenResUpdateStatus(s) ==
  /\ req[s].kind = "generateResolution" /\ req[s].pc = "updateStatus"
  /\ issues' = [issues EXCEPT ![req[s].issueId].status = "in_progress"]
  /\ IF req[s].pending # {}
     THEN Continue(s, [req[s] EXCEPT !.pc = "incrementUsage"])
     ELSE Return(s, 200, "")
  /\ UNCHANGED <<resolutions, sops, kb, ratingEvents, pendingSop, accepted>>
  /\ UNCHANGED probe

\* the update with the count raised twice
incrementUsageCountTwice(row) == [row EXCEPT !.usageCount = @ + 2]

\* data: {usageCount: {increment: 1}}: the store adds one to the row's count
incrementUsageCount(row) == [row EXCEPT !.usageCount = @ + 1]

\* one db.knowledgeBase.update({data: {usageCount: {increment: 1}}}) of the
\* Promise.all over the retrieved entries, in generate-resolution and in
\* retrieve; the handler returns after the last one
IncrementUsage(s, id) ==
  /\ req[s].pc = "incrementUsage"
  /\ id \in req[s].pending
  /\ kb' = [kb EXCEPT ![id] = incrementUsageCount(@)]
  /\ IF req[s].pending = {id}
     THEN Return(s, 200, "")
     ELSE Continue(s, [req[s] EXCEPT !.pending = @ \ {id}])
  /\ UNCHANGED <<issues, resolutions, sops, ratingEvents, pendingSop, accepted>>
  /\ UNCHANGED probe

(* --------------------- POST /api/ai/retrieve -------------------------- *)

\* an empty query is refused (400); otherwise the candidates are read, scored
\* and ranked; the read of related issues that follows changes nothing
StartRetrieve(s, query, ctype, limit) ==
  /\ CanAccept(s)
  /\ LET relevantEntries ==
           rankEntries(findManyKb(kb, ctype, EndpointTake), query, limit)
     IN IF query = <<>>
        THEN /\ lastResponse' = Response("retrieve", 400, "Query is required")
             /\ UNCHANGED <<req, accepted>>
        ELSE IF relevantEntries = <<>>
        THEN /\ lastResponse' = Response("retrieve", 200, "")
             /\ UNCHANGED <<req, accepted>>
        ELSE /\ Continue(s, [Blank EXCEPT !.kind = "retrieve",
                                          !.pc = "incrementUsage",
                                          !.relevant = relevantEntries,
                                          !.pending = Ids(relevantEntries)])
             /\ accepted' = accepted + 1
  /\ UNCHANGED <<issues, resolutions, sops, kb, ratingEvents, pendingSop>>
  /\ UNCHANGED probe

(* ----------------- POST /api/ai/resolutions/[id]/rate ------------------ *)

\* the validation without its upper bound
RatingValidNoUpperBound(rating) == rating # 0 /\ rating >= 1

\* !rating || rating < 1 || rating > 5 is refused
RatingValid(rating) == rating # 0 /\ rating >= 1 /\ rating <= 5

\* the least rating that reaches the knowledge base
PromotionThreshold == 4

\* the promotion test with its threshold one too low
PromotesFromThree(rating) == rating >= PromotionThreshold - 1

\* the promotion test left out
PromotesAlways(rating) == TRUE

\* if (rating >= 4)
Promotes(rating) == rating >= PromotionThreshold

\* the update with the old average counted once instead of usageCount times
runningMeanUnweighted(avg, n, rating) ==
  Frac(avg[1] + rating * avg[2], avg[2] * 2)

\* ((averageRating * usageCount) + rating) / (usageCount + 1)
runningMean(avg, n, rating) ==
  Frac(avg[1] * n + rating * avg[2], avg[2] * (n + 1))

\* an invalid rating is refused (400); db.aiResolution.update stores the
\* rating, and throws for an unknown resolution (500)
StartRate(s, rid, rating) ==
  /\ CanAccept(s)
  /\ rid \in 1..(Len(resolutions) + 1)
  /\ IF ~RatingValid(rating)
     THEN /\ lastResponse' = Response("rate", 400, "Rating must be between 1 and 5")
          /\ UNCHANGED <<resolutions, req, accepted>>
     ELSE IF rid > Len(resolutions)
     THEN /\ lastResponse' = Response("rate", 500, "Failed to rate resolution")
          /\ UNCHANGED <<resolutions, req, accepted>>
     ELSE /\ resolutions' = [resolutions EXCEPT ![rid].userRating = rating]
          /\ Continue(s, [Blank EXCEPT
               !.kind = "rate", !.resolutionId = rid, !.rating = rating,
               !.pc = IF Promotes(rating) THEN "findKb" ELSE "createRating"])
          /\ accepted' = accepted + 1
  /\ UNCHANGED <<issues, sops, kb, ratingEvents, pendingSop>>
  /\ UNCHANGED probe

\* the rows db.knowledgeBase.findFirst({where: {content, contentType}}) can
\* return: no order is asked for, so any matching row
Matching(content, ctype) ==
  {k \in 1..Len(kb) : kb[k].content = content /\ kb[k].contentType = ctype}

RateFindKb(s) ==
  /\ req[s].kind = "rate" /\ req[s].pc = "findKb"
  /\ LET m == Matching(resolutions[req[s].resolutionId].resolutionText,
                       "resolution")
     IN IF m = {}
        THEN Continue(s, [req[s] EXCEPT !.pc = "createKb"])
        ELSE \E k \in m :
               Continue(s, [req[s] EXCEPT
                 !.pc = "updateKb",
                 !.found = <<[id |-> k, averageRating |-> kb[k].averageRating,
                              usageCount |-> kb[k].usageCount]>>])
  /\ UNCHANGED <<issues, resolutions, sops, kb, ratingEvents, pendingSop, accepted>>
  /\ UNCHANGED probe

\* the row an update of the found entry writes: both fields come from the
\* values read by findFirst; ratingSum and ratingCount record the ratings
\* that went into the row and are not fields of the source
promotedEntry(row, existing, rating) ==
  [row EXCEPT
     !.usageCount = existing.usageCount + 1,
     !.averageRating = runningMean(existing.averageRating,
                                   existing.usageCount, rating),
     !.ratingSum = @ + rating,
     !.ratingCount = @ + 1]

\* db.knowledgeBase.update of the found entry
RateUpdateKb(s) ==
  /\ req[s].kind = "rate" /\ req[s].pc = "updateKb"
  /\ LET existing == req[s].found[1]
     IN kb' = [kb EXCEPT ![existing.id] =
                 promotedEntry(@, existing, req[s].rating)]
  /\ Continue(s, [req[s] EXCEPT !.pc = "createRating", !.found = <<>>])
  /\ UNCHANGED <<issues, resolutions, sops, ratingEvents, pendingSop, accepted>>
  /\ UNCHANGED probe

\* a new row created with an average of 0 instead of the rating
newEntryUnrated(id, content, ctype, rating) ==
  [id |-> id, content |-> content, contentType |-> ctype,
   averageRating |-> <<0, 1>>, usageCount |-> 1,
   ratingSum |-> rating, ratingCount |-> 1]

\* a new row, created with usageCount 1 and the rating as its average
newEntry(id, content, ctype, rating) ==
  [id |-> id, content |-> content, contentType |-> ctype,
   averageRating |-> <<rating, 1>>, usageCount |-> 1,
   ratingSum |-> rating, ratingCount |-> 1]

\* db.knowledgeBase.create of a resolution entry
RateCreateKb(s) ==
  /\ req[s].kind = "rate" /\ req[s].pc = "createKb"
  /\ kb' = Append(kb, newEntry(Len(kb) + 1,
                    resolutions[req[s].resolutionId].resolutionText,
                    "resolution", req[s].rating))
  /\ Continue(s, [req[s] EXCEPT !.pc = "createRating"])
  /\ UNCHANGED <<issues, resolutions, sops, ratingEvents, pendingSop, accepted>>
  /\ UNCHANGED probe

\* db.aiRating.create, after which the handler returns
RateCreateRating(s) ==
  /\ req[s].kind = "rate" /\ req[s].pc = "createRating"
  /\ ratingEvents' = ratingEvents + 1
  /\ Return(s, 200, "")
  /\ UNCHANGED <<issues, resolutions, sops, kb, pendingSop, accepted>>
  /\ UNCHANGED probe

(* ---------------------- POST /api/ai/generate-sop --------------------- *)

\* the issue's resolutions with userRating >= 4, as indexes
HighlyRated(i) ==
  {k \in 1..Len(resolutions) :
     resolutions[k].issueId = i /\ resolutions[k].userRating >= PromotionThreshold}

\* orderBy generatedAt desc, take 1: the latest of them
BestResolution(i) == CHOOSE k \in HighlyRated(i) : \A j \in HighlyRated(i) : j <= k

\* the checks without the one of the issue's status
sopRefusalIgnoresStatus(i) ==
  IF i = 0 THEN "Missing issueId"
  ELSE IF ~Exists(i) THEN "Issue not found"
  ELSE IF HighlyRated(i) = {}
  THEN "No highly-rated resolution found for this issue"
  ELSE ""

\* the error the handler answers with after db.issue.findUnique, "" when it
\* goes on
sopRefusal(i) ==
  IF i = 0 THEN "Missing issueId"
  ELSE IF ~Exists(i) THEN "Issue not found"
  ELSE IF issues[i].status # "resolved"
  THEN "Issue must be resolved before generating SOP"
  ELSE IF HighlyRated(i) = {}
  THEN "No highly-rated resolution found for this issue"
  ELSE ""

AcceptGenerateSop(s, i) ==
  /\ CanAccept(s)
  /\ IF sopRefusal(i) # ""
     THEN /\ lastResponse' =
               Response("generateSop",
                        IF sopRefusal(i) = "Issue not found" THEN 404 ELSE 400,
                        sopRefusal(i))
          /\ UNCHANGED <<req, accepted>>
     ELSE /\ Continue(s, [Blank EXCEPT
               !.kind = "generateSop", !.pc = "findSop", !.issueId = i,
               !.rating = resolutions[BestResolution(i)].userRating])
          /\ accepted' = accepted + 1

\* the fetch fired by the resolve route arrives
DeliverSopTrigger(s, i) ==
  /\ i \in IssueIds
  /\ pendingSop[i] > 0
  /\ pendingSop' = [pendingSop EXCEPT ![i] = @ - 1]
  /\ AcceptGenerateSop(s, i)
  /\ UNCHANGED <<issues, resolutions, sops, kb, ratingEvents>>
  /\ UNCHANGED probe

HasSop(i) == \E k \in 1..Len(sops) : sops[k].issueId = i

\* db.aiSop.findFirst({where: {issueId}}): the duplicate guard
SopGuardPasses(i) == ~HasSop(i)

GenSopFindSop(s) ==
  /\ req[s].kind = "generateSop" /\ req[s].pc = "findSop"
  /\ IF SopGuardPasses(req[s].issueId)
     THEN Continue(s, [req[s] EXCEPT !.pc = "generate"])
     ELSE Return(s, 400, "SOP already exists for this issue")
  /\ UNCHANGED <<issues, resolutions, sops, kb, ratingEvents, pendingSop, accepted>>
  /\ UNCHANGED probe

\* generateSOPWithOllama, then db.aiSop.create, which throws for a sopText
\* that is no string (500)
GenSopGenerate(s) ==
  /\ req[s].kind = "generateSop" /\ req[s].pc = "generate"
  /\ \E text \in SopTexts(issues[req[s].issueId]) :
       IF IsText(text)
       THEN /\ sops' = Append(sops, [issueId |-> req[s].issueId, sopText |-> text])
            /\ Continue(s, [req[s] EXCEPT !.pc = "createKb", !.text = text])
       ELSE /\ UNCHANGED sops
            /\ Return(s, 500, "Failed to generate SOP")
  /\ UNCHANGED <<issues, resolutions, kb, ratingEvents, pendingSop, accepted>>
  /\ UNCHANGED probe

\* if (bestResolution.userRating >= 4) db.knowledgeBase.create of the SOP
\* text, with the best resolution's rating
GenSopCreateKb(s) ==
  /\ req[s].kind = "generateSop" /\ req[s].pc = "createKb"
  /\ kb' = IF Promotes(req[s].rating)
           THEN Append(kb, newEntry(Len(kb) + 1, req[s].text, "sop",
                                    req[s].rating))
           ELSE kb
  /\ Return(s, 200, "")
  /\ UNCHANGED <<issues, resolutions, sops, ratingEvents, pendingSop, accepted>>
  /\ UNCHANGED probe

(* --------------------------- specification ---------------------------- *)

Next ==
  \/ \E i \in IssueIds, input \in IssueInputs : CreateIssue(i, input)
  \/ \E i \in IssueIds : ResolveIssue(i)
  \/ \E i \in IssueIds : DropSopTrigger(i)
  \/ \E s \in Slots, i \in 0..MaxIssues : StartGenerateResolution(s, i)
  \/ \E s \in Slots : GenResFindResolution(s)
  \/ \E s \in Slots : GenResRetrieve(s)
  \/ \E s \in Slots : GenResGenerate(s)
  \/ \E s \in Slots : GenResUpdateStatus(s)
  \/ \E s \in Slots : \E id \in req[s].pending : IncrementUsage(s, id)
  \/ \E s \in Slots, q \in QueryInputs, t \in ContentTypes, n \in LimitInputs :
       StartRetrieve(s, q, t, n)
  \/ \E s \in Slots, rid \in 1..(Len(resolutions) + 1), r \in RatingInputs :
       StartRate(s, rid, r)
  \/ \E s \in Slots : RateFindKb(s)
  \/ \E s \in Slots : RateUpdateKb(s)
  \/ \E s \in Slots : RateCreateKb(s)
  \/ \E s \in Slots : RateCreateRating(s)
  \/ \E s \in Slots, i \in IssueIds : DeliverSopTrigger(s, i)
  \/ \E s \in Slots : GenSopFindSop(s)
  \/ \E s \in Slots : GenSopGenerate(s)
  \/ \E s \in Slots : GenSopCreateKb(s)

Spec == Init /\ [][Next]_vars

\* requests handled one after the other: a request is accepted only when no
\* handler is running
NextSeq == Next /\ (accepted' # accepted => \A s \in Slots : Free(s))

SpecSeq == Init /\ [][NextSeq]_vars

(* ---------------------- a store that can fail ------------------------- *)

\* the error of a route's catch block
FailureText(kind) ==
  CASE kind = "generateResolution" -> "Failed to generate AI resolution"
    [] kind = "generateSop" -> "Failed to generate SOP"
    [] kind = "rate" -> "Failed to rate resolution"
    [] kind = "retrieve" -> "Failed to retrieve relevant content"

\* the first store operation of a request throws: db.issue.findUnique of
\* generate-resolution, db.aiResolution.update of rate, findMany of retrieve
FirstOperationFails(kind) ==
  /\ kind \in {"generateResolution", "rate", "retrieve"}
  /\ lastResponse' = Response(kind, 500, FailureText(kind))
  /\ UNCHANGED <<issues, resolutions, sops, kb, ratingEvents, pendingSop, req,
                 accepted, probe>>

\* the background fetch arrives and db.issue.findUnique of generate-sop throws
SopFirstOperationFails(i) ==
  /\ i \in IssueIds
  /\ pendingSop[i] > 0
  /\ pendingSop' = [pendingSop EXCEPT ![i] = @ - 1]
  /\ lastResponse' = Response("generateSop", 500, FailureText("generateSop"))
  /\ UNCHANGED <<issues, resolutions, sops, kb, ratingEvents, req, accepted,
                 probe>>

\* the store operation a running handler awaits throws and the route's catch
\* answers 500
StoreOperationFails(s) ==
  /\ ~Free(s)
  /\ req[s].pc \notin {"retrieve", "incrementUsage", "incrementRejected"}
  /\ Return(s, 500, FailureText(req[s].kind))
  /\ UNCHANGED <<issues, resolutions, sops, kb, ratingEvents, pendingSop,
                 accepted, probe>>

\* findMany inside retrieveRelevantContent throws and the error reaches the
\* route's catch
EmbeddedReadPropagates(s) ==
  /\ req[s].kind = "generateResolution" /\ req[s].pc = "retrieve"
  /\ Return(s, 500, FailureText(req[s].kind))
  /\ UNCHANGED <<issues, resolutions, sops, kb, ratingEvents, pendingSop,
                 accepted, probe>>

\* findMany inside retrieveRelevantContent throws: its catch logs the error
\* and returns []
EmbeddedReadFails(s) ==
  /\ req[s].kind = "generateResolution" /\ req[s].pc = "retrieve"
  /\ Continue(s, [req[s] EXCEPT
       !.pc = "generate", !.relevant = <<>>,
       !.caught = {"Failed to retrieve relevant content"}])
  /\ UNCHANGED <<issues, resolutions, sops, kb, ratingEvents, pendingSop,
                 accepted, probe>>

\* one update of the Promise.all rejects: the route answers 500 and the
\* updates already sent still reach the store
IncrementRejected(s, id) ==
  /\ req[s].pc = "incrementUsage"
  /\ id \in req[s].pending
  /\ IF req[s].pending = {id}
     THEN Return(s, 500, FailureText(req[s].kind))
     ELSE Continue(s, [req[s] EXCEPT !.pc = "incrementRejected",
                                     !.pending = @ \ {id}])
  /\ UNCHANGED <<issues, resolutions, sops, kb, ratingEvents, pendingSop,
                 accepted, probe>>

\* an update left over after the rejection succeeds or fails
SettleIncrement(s, id) ==
  /\ req[s].pc = "incrementRejected"
  /\ id \in req[s].pending
  /\ kb' \in {kb, [kb EXCEPT ![id] = incrementUsageCount(@)]}
  /\ IF req[s].pending = {id}
     THEN Return(s, 500, FailureText(req[s].kind))
     ELSE Continue(s, [req[s] EXCEPT !.pending = @ \ {id}])
  /\ UNCHANGED <<issues, resolutions, sops, ratingEvents, pendingSop, accepted,
                 probe>>

NextFaulty ==
  \/ Next
  \/ \E kind \in {"generateResolution", "rate", "retrieve"} :
       FirstOperationFails(kind)
  \/ \E i \in IssueIds : SopFirstOperationFails(i)
  \/ \E s \in Slots : StoreOperationFails(s)
  \/ \E s \in Slots : EmbeddedReadFails(s)
  \/ \E s \in Slots : \E id \in req[s].pending : IncrementRejected(s, id)
  \/ \E s \in Slots : \E id \in req[s].pending : SettleIncrement(s, id)

\* the handlers over a store whose operations can throw
SpecFaulty == Init /\ [][NextFaulty]_vars

NextReadFails == Next \/ \E s \in Slots : EmbeddedReadFails(s)

\* the handlers over a store in which only the read of candidate entries
\* inside retrieveRelevantContent can throw
SpecReadFails == Init /\ [][NextReadFails]_vars

(* ------------- handlers that run on, triggers that arrive -------------- *)

\* The background fetch of the resolve route arrives: the server takes up
\* every request that reaches it, so triggers are served beside the requests
\* of the budget and are not counted in it.
DeliverSopTriggerLive(s, i) ==
  /\ i \in IssueIds
  /\ pendingSop[i] > 0
  /\ Free(s)
  /\ \A u \in Slots : u < s => ~Free(u)
  /\ pendingSop' = [pendingSop EXCEPT ![i] = @ - 1]
  /\ IF sopRefusal(i) # ""
     THEN /\ lastResponse' =
               Response("generateSop",
                        IF sopRefusal(i) = "Issue not found" THEN 404 ELSE 400,
                        sopRefusal(i))
          /\ UNCHANGED req
     ELSE Continue(s, [Blank EXCEPT
            !.kind = "generateSop", !.pc = "findSop", !.issueId = i,
            !.rating = resolutions[BestResolution(i)].userRating])
  /\ UNCHANGED <<issues, resolutions, sops, kb, ratingEvents, accepted, probe>>

\* the handler in slot s awaits the read of retrieveRelevantContent
AtRetrieval(s) ==
  req[s].kind = "generateResolution" /\ req[s].pc = "retrieve"

\* the next store operation of the handler in slot s completes, the read of
\* retrieveRelevantContent apart
HandlerStep(s) ==
  \/ GenResFindResolution(s)
  \/ GenResGenerate(s)
  \/ GenResUpdateStatus(s)
  \/ \E id \in req[s].pending : IncrementUsage(s, id)
  \/ RateFindKb(s)
  \/ RateUpdateKb(s)
  \/ RateCreateKb(s)
  \/ RateCreateRating(s)
  \/ GenSopFindSop(s)
  \/ GenSopGenerate(s)
  \/ GenSopCreateKb(s)

\* generation and rating requests accepted over a run with fairness
MaxLiveRequests == 3

\* what clients send: new issues, resolves, and generation and rating
\* requests
ClientRequest ==
  \/ \E i \in IssueIds, input \in IssueInputs : CreateIssue(i, input)
  \/ \E i \in IssueIds : ResolveIssue(i)
  \/ /\ accepted < MaxLiveRequests
     /\ \/ \E s \in Slots, i \in 0..MaxIssues : StartGenerateResolution(s, i)
        \/ \E s \in Slots, rid \in 1..(Len(resolutions) + 1),
                 r \in RatingInputs : StartRate(s, rid, r)

NextLive ==
  \/ ClientRequest
  \/ \E s \in Slots : GenResRetrieve(s)
  \/ \E s \in Slots : HandlerStep(s)
  \/ \E s \in Slots, i \in IssueIds : DeliverSopTriggerLive(s, i)

\* Every awaited store operation completes and every background fetch
\* arrives; clients are free to send nothing more.  A handler leaves its
\* retrieval only by the step GenResRetrieve, which is enabled all the while,
\* so that []<>~AtRetrieval(s) is WF_vars(GenResRetrieve(s)).
Fairness ==
  /\ \A s \in Slots : WF_vars(HandlerStep(s))
  /\ \A s \in Slots : []<>~AtRetrieval(s)
  /\ \A i \in IssueIds :
       WF_vars(\E s \in Slots : DeliverSopTriggerLive(s, i))

\* the handlers over a working store, with triggers that are delivered
SpecLive == Init /\ [][NextLive]_vars /\ Fairness

(* --------------- ratings and retrievals of stored content -------------- *)

\* The store once an issue was created and its resolution generated by the
\* backend and stored: the issue is in progress, the resolution unrated, the
\* knowledge base empty.  The request budget is counted from this state.
InitGenerated ==
  /\ issues = [i \in IssueIds |->
                 IF i = 1
                 THEN LET input == CHOOSE x \in IssueInputs : TRUE
                      IN [status |-> "in_progress", title |-> input.title,
                          description |-> input.description,
                          category |-> input.category]
                 ELSE NoIssue]
  /\ resolutions = << [issueId |-> 1,
                       resolutionText |-> CHOOSE x \in BackendTexts : TRUE,
                       userRating |-> 0] >>
  /\ sops = <<>>
  /\ kb = <<>>
  /\ ratingEvents = 0
  /\ pendingSop = [i \in IssueIds |-> 0]
  /\ req = [s \in Slots |-> Blank]
  /\ accepted = 0
  /\ lastResponse = Response("generateResolution", 200, "")
  /\ probe = NoProbe

\* the rate and retrieve endpoints only
NextUsage ==
  \/ \E s \in Slots, q \in QueryInputs, t \in ContentTypes, n \in LimitInputs :
       StartRetrieve(s, q, t, n)
  \/ \E s \in Slots : \E id \in req[s].pending : IncrementUsage(s, id)
  \/ \E s \in Slots, rid \in 1..(Len(resolutions) + 1), r \in RatingInputs :
       StartRate(s, rid, r)
  \/ \E s \in Slots : RateFindKb(s)
  \/ \E s \in Slots : RateUpdateKb(s)
  \/ \E s \in Slots : RateCreateKb(s)
  \/ \E s \in Slots : RateCreateRating(s)

\* ratings and retrievals interleaved over a stored resolution
SpecUsage == InitGenerated /\ [][NextUsage]_vars

(* ------------- the pure functions applied on their own ---------------- *)

\* rows of a seeded table
MaxTable == 2

\* const { limit = 5 } = body
DefaultLimit == 5

\* texts with keywords, and one without
SeedContents ==
  { <<"restart", "database", "pool">>, <<"ok">>, <<"Database", "timeout">> }
SeedRatings == { <<3, 1>>, <<7, 2>>, <<5, 1>> }
SeedUsages == {0, 12}

\* a KnowledgeBase row put into the store directly
SeedRows ==
  [content : SeedContents, contentType : ContentTypes,
   averageRating : SeedRatings, usageCount : SeedUsages]

SeedRow(id, r) ==
  [id |-> id, content |-> r.content, contentType |-> r.contentType,
   averageRating |-> r.averageRating, usageCount |-> r.usageCount,
   ratingSum |-> 0, ratingCount |-> 0]

\* the tables of at most MaxTable rows; a row's id is its index
SeedTables ==
  UNION { { [k \in 1..n |-> SeedRow(k, f[k])] : f \in [1..n -> SeedRows] } :
          n \in 0..MaxTable }

\* non-empty queries: one without a keyword, two with
SeedQueries ==
  { <<"fix", "it">>, <<"Database", "pool", "timeout">>, <<"restart">> }
SeedLimits == {-1, 0, 1, EmbeddedLimit, DefaultLimit}

\* a table of more resolution rows than the retrieval of resolution
\* generation reads: as many top-rated rows without a keyword as it takes,
\* then one rated 3.5 that shares two keywords with the longest query
LongTable ==
  [k \in 1..(EmbeddedTake + 1) |->
     SeedRow(k, IF k <= EmbeddedTake
                THEN [content |-> <<"ok">>, contentType |-> "resolution",
                      averageRating |-> <<5, 1>>, usageCount |-> 0]
                ELSE [content |-> <<"Database", "timeout">>,
                      contentType |-> "resolution",
                      averageRating |-> <<7, 2>>, usageCount |-> 0])]

\* a table of one row whose average, 4.2, is that of the ratings 4, 4, 4, 4, 5
FifthsTable ==
  << SeedRow(1, [content |-> <<"restart", "database", "pool">>,
                 contentType |-> "resolution",
                 averageRating |-> <<21, 5>>, usageCount |-> 4]) >>

\* entries given to the scorer, rated from 1 to 5
ScoredRows ==
  [content : SeedContents, contentType : {"resolution"},
   averageRating : SeedRatings \cup { <<1, 1>> }, usageCount : SeedUsages]

\* issue categories: with a template of their own in both functions, in one,
\* in none, and a name found on Object.prototype
SeedCategories ==
  {"database", "infrastructure", "application", "network", "security",
   "other", "constructor"}

SeedIssues ==
  [status : {"open"}, title : { <<"Database", "timeout">> },
   description : { <<"under", "load.">> }, category : SeedCategories]

\* what retrieval hands to the generation: nothing, or one scored entry
SeedRelevant ==
  { <<>>,
    << scoreEntry(<<"database", "timeout">>,
                  SeedRow(1, [content |-> <<"restart", "database", "pool">>,
                              contentType |-> "resolution",
                              averageRating |-> <<5, 1>>,
                              usageCount |-> 0])) >> }

\* pieces of text a seeded text is put together from
MaxPieces == 5

\* pieces with capitals, punctuation, a stop-word, short words, white space
\* and the other word characters
TextPieces ==
  { <<"P", "o", "o", "l">>, <<"p", "o", "o", "l", ".">>,
    <<"T", "h", "i", "s", " ">>, <<"a", "b">>, <<" ">>, <<"_", "1">> }

\* the texts of at most MaxPieces pieces
SeedTexts ==
  UNION { { Flatten(f) : f \in [1..n -> TextPieces] } : n \in 0..MaxPieces }

Unapplied(fn, args) ==
  [fn |-> fn, args |-> args, applied |-> FALSE, result |-> <<>>]

ProbeInputs ==
  { Unapplied("retrieve", a) :
      a \in [table : SeedTables \cup {LongTable, FifthsTable},
             query : SeedQueries,
             contentType : ContentTypes, limit : SeedLimits] }
  \cup { Unapplied("retrieveRelevantContent", a) :
           a \in [table : SeedTables \cup {LongTable, FifthsTable},
                  query : SeedQueries] }
  \cup { Unapplied("scoreEntry", a) :
           a \in [query : SeedQueries, entry : ScoredRows] }
  \cup { Unapplied("generateResolution", a) :
           a \in [issue : SeedIssues, relevantContent : SeedRelevant] }
  \cup { Unapplied("generateSOP", a) : a \in [issue : SeedIssues] }
  \cup { Unapplied("extractKeywords", a) : a \in [text : SeedTexts] }

InitPure ==
  /\ issues = [i \in IssueIds |-> NoIssue]
  /\ resolutions = <<>>
  /\ sops = <<>>
  /\ kb = <<>>
  /\ ratingEvents = 0
  /\ pendingSop = [i \in IssueIds |-> 0]
  /\ req = [s \in Slots |-> Blank]
  /\ accepted = 0
  /\ lastResponse = NoResponse
  /\ probe \in ProbeInputs

Apply(fn, result) ==
  /\ probe.fn = fn
  /\ ~probe.applied
  /\ probe' = [probe EXCEPT !.applied = TRUE, !.result = result]
  /\ UNCHANGED <<issues, resolutions, sops, kb, ratingEvents, pendingSop, req,
                 accepted, lastResponse>>

\* the retrieve endpoint from its read of the store to relevantEntries
ApplyRetrieve ==
  Apply("retrieve",
        rankEntries(findManyKb(probe.args.table, probe.args.contentType,
                               EndpointTake),
                    probe.args.query, probe.args.limit))

ApplyRetrieveRelevantContent ==
  Apply("retrieveRelevantContent",
        retrieveRelevantContent(probe.args.table, probe.args.query))

\* the body of scoredEntries' map for one entry
ApplyScoreEntry ==
  Apply("scoreEntry",
        scoreEntry(extractKeywords(probe.args.query),
                   SeedRow(1, probe.args.entry)))

\* generateResolutionWithOllama with the backend failing
ApplyGenerateResolution ==
  Apply("generateResolution",
        generateResolutionTemplate(probe.args.issue,
                                   probe.args.relevantContent))

\* generateSOPWithOllama with the backend failing
ApplyGenerateSOP ==
  Apply("generateSOP", generateSOPTemplate(probe.args.issue))

ApplyExtractKeywords ==
  Apply("extractKeywords", extractKeywordsOfText(probe.args.text))

NextPure ==
  \/ ApplyExtractKeywords
  \/ ApplyRetrieve
  \/ ApplyRetrieveRelevantContent
  \/ ApplyScoreEntry
  \/ ApplyGenerateResolution
  \/ ApplyGenerateSOP

SpecPure == InitPure /\ [][NextPure]_vars

(* ------------------------------ claims -------------------------------- *)

\* the step is taken by the handler in slot s
Steps(s) == req'[s] # req[s]

SameFraction(a, b) == a[1] * b[2] = b[1] * a[2]

\* C1: after any sequence of retrievals and ratings, every entry's
\* averageRating is the arithmetic mean of the ratings promoted into it.
C1_AverageIsMeanOfPromoted ==
  \A k \in 1..Len(kb) :
    SameFraction(kb[k].averageRating, <<kb[k].ratingSum, kb[k].ratingCount>>)

\* C2: a rating r >= 4 of content whose entry was found with average a and
\* usage count n leaves that entry with average (a*n + r)/(n + 1) and usage
\* count n + 1; when no entry was found, a new entry of type resolution is
\* appended with average r and usage count 1.
C2_PromoterUpdateRule ==
  [][\A s \in Slots :
       /\ (req[s].kind = "rate" /\ req[s].pc = "updateKb" /\ Steps(s)) =>
            LET a == req[s].found[1].averageRating
                n == req[s].found[1].usageCount
                r == req[s].rating
                e == kb'[req[s].found[1].id]
            IN /\ Len(kb') = Len(kb)
               /\ SameFraction(e.averageRating, <<a[1] * n + r * a[2], a[2] * (n + 1)>>)
               /\ e.usageCount = n + 1
       /\ (req[s].kind = "rate" /\ req[s].pc = "createKb" /\ Steps(s)) =>
            /\ Len(kb') = Len(kb) + 1
            /\ kb'[Len(kb')].averageRating = <<req[s].rating, 1>>
            /\ kb'[Len(kb')].usageCount = 1
            /\ kb'[Len(kb')].contentType = "resolution"
            /\ kb'[Len(kb')].content =
                 resolutions[req[s].resolutionId].resolutionText
            /\ SubSeq(kb', 1, Len(kb)) = kb]_vars

\* C2's case: an entry created by a rating of 4 (a = 4.0, n = 1) was rated 5
\* and now has average 4.5 and usage count 2
C2_Witness ==
  \E k \in 1..Len(kb) :
    /\ kb[k].contentType = "resolution"
    /\ kb[k].averageRating = <<9, 2>>
    /\ kb[k].usageCount = 2
    /\ kb[k].ratingCount = 2

\* C3: handling a rating of 1, 2 or 3 leaves the KnowledgeBase table
\* unchanged, at every step of the handler.
C3_LowRatingKeepsKnowledgeBase ==
  [][\A s \in Slots :
       /\ (req[s].kind = "rate" /\ req[s].rating \in 1..3 /\ Steps(s)) => kb' = kb
       /\ (req'[s].kind = "rate" /\ req'[s].rating \in 1..3 /\ Steps(s)) => kb' = kb]_vars

\* C3's case: a rating of 3 was stored and its handler has returned with the
\* table still empty
C3_Witness ==
  /\ lastResponse = Response("rate", 200, "")
  /\ \E k \in 1..Len(resolutions) : resolutions[k].userRating = 3
  /\ \A s \in Slots : Free(s)
  /\ kb = <<>>

\* C4: there is at most one KnowledgeEntry per (content, contentType) pair.
C4_OneEntryPerContent ==
  \A j, k \in 1..Len(kb) :
    (kb[j].content = kb[k].content /\ kb[j].contentType = kb[k].contentType)
      => j = k

\* C5: no promoted rating is lost: the usage count of an entry has grown by
\* one for each rating promoted into it, so it is never below their number.
C5_NoPromotionLost ==
  \A k \in 1..Len(kb) : kb[k].usageCount >= kb[k].ratingCount

\* the step inserts a KnowledgeEntry or sets an averageRating
WritesKnowledge ==
  \/ Len(kb') # Len(kb)
  \/ \E k \in 1..Len(kb) : kb'[k].averageRating # kb[k].averageRating

\* the step is a store write of the Promoter, handling a rating >= 4
ByPromoter(s) ==
  /\ req[s].kind = "rate" /\ req[s].rating >= 4
  /\ req[s].pc \in {"updateKb", "createKb"}
  /\ Steps(s)

\* the step is the knowledge-base write of SOP generation
BySopGeneration(s) ==
  /\ req[s].kind = "generateSop" /\ req[s].pc = "createKb"
  /\ Steps(s)
  /\ kb' = Append(kb, kb'[Len(kb')])
  /\ kb'[Len(kb')].contentType = "sop"

C7_OneResolutionPerIssue ==
  \A j, k \in 1..Len(resolutions) :
    resolutions[j].issueId = resolutions[k].issueId => j = k

\* C8: a generate-resolution request that reaches its guard when the issue
\* has a stored resolution returns the error "Resolution already exists for
\* this issue" (400) in that step, which changes no table: no resolution is
\* created, the issue's status and every usageCount stay as they are, and the
\* handler, having returned, never calls the backend.
C8_DuplicateGenerationRejected ==
  [][\A s \in Slots :
       (/\ req[s].kind = "generateResolution"
        /\ req[s].pc = "findResolution"
        /\ \E k \in 1..Len(resolutions) : resolutions[k].issueId = req[s].issueId
        /\ Steps(s))
       => /\ req'[s] = Blank
          /\ lastResponse' = Response("generateResolution", 400,
                                      "Resolution already exists for this issue")
          /\ UNCHANGED <<issues, resolutions, sops, kb, ratingEvents, pendingSop>>]_vars

\* C8's case: a second request for an issue with a resolution was rejected
C8_Witness ==
  /\ lastResponse = Response("generateResolution", 400,
                             "Resolution already exists for this issue")
  /\ Len(resolutions) = 1
  /\ \A s \in Slots : Free(s)

\* the issue is resolved and has a resolution rated >= 4
SopPreconditions(i) ==
  /\ issues[i].status = "resolved"
  /\ \E k \in 1..Len(resolutions) :
       resolutions[k].issueId = i /\ resolutions[k].userRating >= 4

\* C9: a generate-sop request goes on past its first read only if the issue
\* was then resolved and had a resolution rated >= 4; a request for an issue
\* that fails either is answered with an error (400) in that step and changes
\* no table; and an SOP is stored only by a handler that went on, for its
\* issue.
C9_SopOnlyWhenResolvedAndRated ==
  [][/\ \A s \in Slots :
          (req'[s].kind = "generateSop" /\ req[s].kind # "generateSop")
            => SopPreconditions(req'[s].issueId)
     /\ \A i \in IssueIds :
          (pendingSop'[i] < pendingSop[i] /\ Exists(i) /\ ~SopPreconditions(i))
            => /\ UNCHANGED <<issues, resolutions, sops, kb, ratingEvents, req>>
               /\ \/ UNCHANGED lastResponse
                  \/ /\ lastResponse'.kind = "generateSop"
                     /\ lastResponse'.status = 400
                     /\ lastResponse'.error \in
                          {"Issue must be resolved before generating SOP",
                           "No highly-rated resolution found for this issue"}
     /\ sops' # sops =>
          \E s \in Slots :
            /\ req[s].kind = "generateSop" /\ req[s].pc = "generate"
            /\ Len(sops') = Len(sops) + 1
            /\ sops'[Len(sops')].issueId = req[s].issueId
            /\ SubSeq(sops', 1, Len(sops)) = sops]_vars

\* C9's case: SOP generation for a resolved issue that has no resolution rated
\* 4 or more was refused with an error, and no SOP and no entry was stored.
C9_Witness ==
  /\ lastResponse = Response("generateSop", 400,
                             "No highly-rated resolution found for this issue")
  /\ issues[1].status = "resolved"
  /\ sops = <<>>
  /\ kb = <<>>

\* C10: every issue has at most one GeneratedSOP.
C10_OneSopPerIssue ==
  \A j, k \in 1..Len(sops) : sops[j].issueId = sops[k].issueId => j = k

(* ------------------- claims about retrieval and errors ------------------ *)

\* the entries a direct application of either retrieval returned
Returned ==
  IF probe.applied /\ probe.fn \in {"retrieve", "retrieveRelevantContent"}
  THEN probe.result ELSE <<>>

\* C11: no retrieval returns an entry whose averageRating, as the store holds
\* it, is below 3.5: every returned entry carries its row's averageRating and
\* that rating is at least 7/2.
C11_QualityFloor ==
  \A k \in 1..Len(Returned) :
    LET row == probe.args.table[Returned[k].id]
    IN /\ Returned[k].averageRating = row.averageRating
       /\ 2 * row.averageRating[1] >= 7 * row.averageRating[2]

\* C11's case: a row rated 3.0 that was used 12 times and shares two keywords
\* with the query is left out, the row rated 5.0 beside it is returned
C11_Witness ==
  /\ probe.applied /\ probe.fn = "retrieve"
  /\ Len(probe.args.table) = 2
  /\ probe.args.table[1].averageRating = <<3, 1>>
  /\ probe.args.table[1].usageCount = 12
  /\ probe.args.table[1].content = <<"restart", "database", "pool">>
  /\ probe.args.table[1].contentType = probe.args.contentType
  /\ probe.args.query = <<"Database", "pool", "timeout">>
  /\ probe.args.limit = DefaultLimit
  /\ Len(probe.result) = 1 /\ probe.result[1].id = 2

\* C12: no retrieval returns an entry whose computed finalScore is 0.1 or
\* less: the score of every returned entry is a number greater than 1/10.
C12_RelevanceFloor ==
  \A k \in 1..Len(Returned) :
    LET score == Returned[k].similarityScore
    IN score[2] > 0 /\ 10 * score[1] > score[2]

\* C12's case: of two rows rated 5.0 the filter drops the one whose score is
\* not above the floor (no keyword in the query or in the row) and keeps the
\* other
C12_Witness ==
  /\ probe.applied /\ probe.fn = "retrieve"
  /\ probe.args.query = <<"fix", "it">>
  /\ Len(probe.args.table) = 2
  /\ probe.args.table[1].content = <<"ok">>
  /\ probe.args.table[2].content = <<"restart", "database", "pool">>
  /\ \A k \in 1..2 :
       /\ probe.args.table[k].contentType = probe.args.contentType
       /\ probe.args.table[k].averageRating = <<5, 1>>
  /\ probe.args.limit = DefaultLimit
  /\ Len(probe.result) = 1 /\ probe.result[1].id = 2

\* C13: the retrieve endpoint returns at most limit entries for every limit
\* the caller passes (none for a limit below 1), and the retrieval of
\* resolution generation at most 3.
C13_LimitRespected ==
  /\ (probe.applied /\ probe.fn = "retrieve")
       => Len(probe.result) <= Max(probe.args.limit, 0)
  /\ (probe.applied /\ probe.fn = "retrieveRelevantContent")
       => Len(probe.result) <= 3

\* the handler in slot s serves a retrieval: the endpoint or generation
Retrieves(r) == r.kind \in {"retrieve", "generateResolution"}

\* C14: a retrieval raises by exactly 1 the usageCount of each entry it
\* returned, one entry per update, and changes nothing else of the
\* KnowledgeBase table: an update step of its handler adds 1 to the count of
\* one entry still waiting and takes it off the waiting set (returning after
\* the last), the waiting set starts as the ids of the returned entries, and
\* no other step of the handler changes the table.
C14_RetrievalIncrementsReturned ==
  [][\A s \in Slots :
       /\ (Retrieves(req[s]) /\ Steps(s) /\ req[s].pc = "incrementUsage") =>
            \E id \in req[s].pending :
              /\ kb' = [kb EXCEPT ![id].usageCount = kb[id].usageCount + 1]
              /\ IF req[s].pending = {id}
                 THEN req'[s] = Blank
                 ELSE /\ req'[s].pc = "incrementUsage"
                      /\ req'[s].pending = req[s].pending \ {id}
       /\ (Steps(s) /\ (Retrieves(req[s]) \/ Retrieves(req'[s]))
             /\ req[s].pc # "incrementUsage") => kb' = kb
       /\ (req[s].kind = "idle" /\ req'[s].kind = "retrieve") =>
            /\ req'[s].pc = "incrementUsage"
            /\ req'[s].pending = Ids(req'[s].relevant)
       /\ (req[s].kind = "generateResolution" /\ Steps(s)
             /\ req[s].pc = "generate" /\ req'[s] # Blank) =>
            req'[s].pending = Ids(req[s].relevant)
       /\ (req[s].kind = "generateResolution" /\ Steps(s)
             /\ req[s].pc = "updateStatus") =>
            IF req[s].pending = {}
            THEN req'[s] = Blank
            ELSE /\ req'[s].pc = "incrementUsage"
                 /\ req'[s].pending = req[s].pending]_vars

\* C14's case: a retrieve request has returned and left the one entry,
\* promoted once, with a usageCount of 2
C14_Witness ==
  /\ lastResponse = Response("retrieve", 200, "")
  /\ Len(kb) = 1
  /\ kb[1].ratingCount = 1
  /\ kb[1].usageCount = 2
  /\ \A s \in Slots : Free(s)

\* where the store's read puts row a before row b: averageRating desc, then
\* usageCount desc, then the order of insertion
StoredBefore(a, b) ==
  \/ a.averageRating[1] * b.averageRating[2]
       > b.averageRating[1] * a.averageRating[2]
  \/ /\ a.averageRating = b.averageRating
     /\ \/ a.usageCount > b.usageCount
        \/ a.usageCount = b.usageCount /\ a.id < b.id

\* C15: a retrieval returns its entries in descending finalScore order, and
\* entries of equal finalScore in the order the store's read gave them.
C15_RankedByScoreThenStorage ==
  \A p, q \in 1..Len(Returned) :
    p < q =>
      LET a == Returned[p]
          b == Returned[q]
      IN \/ a.similarityScore[1] * b.similarityScore[2]
              > b.similarityScore[1] * a.similarityScore[2]
         \/ /\ a.similarityScore = b.similarityScore
            /\ StoredBefore(probe.args.table[a.id], probe.args.table[b.id])

\* C15's case: two rows alike in content, rating and usage both come back,
\* the one inserted first in front
C15_Witness ==
  /\ probe.applied /\ probe.fn = "retrieve"
  /\ Len(probe.args.table) = 2
  /\ probe.args.table[1].content = probe.args.table[2].content
  /\ probe.args.table[1].averageRating = probe.args.table[2].averageRating
  /\ probe.args.table[1].usageCount = probe.args.table[2].usageCount
  /\ Len(probe.result) = 2
  /\ probe.result[1].id = 1 /\ probe.result[2].id = 2
  /\ probe.result[1].similarityScore = probe.result[2].similarityScore

\* C16: for every query and every entry rated from 1 to 5 the computed
\* finalScore is a number from 0 to 1.
C16_ScoreBetweenZeroAndOne ==
  (probe.applied /\ probe.fn = "scoreEntry") =>
     LET score == probe.result.similarityScore
     IN score[2] > 0 /\ score[1] >= 0 /\ score[1] <= score[2]

\* the template a category is to get: its own, else the infrastructure one
OwnOrInfrastructure(category, keys) ==
  IF category \in keys THEN category ELSE "infrastructure"

StartsWith(text, heading) ==
  Len(text) >= Len(heading) /\ SubSeq(text, 1, Len(heading)) = heading

\* C17: with the backend failing, generateResolution and generateSOP return
\* non-empty template text for every category: the template of the issue's
\* category, or the infrastructure template for a category without one.
C17_FallbackForEveryCategory ==
  /\ (probe.applied /\ probe.fn = "generateResolution") =>
       /\ IsText(probe.result) /\ probe.result # <<>>
       /\ StartsWith(probe.result,
            ResolutionHeading(OwnOrInfrastructure(probe.args.issue.category,
                                                  ResolutionTemplateKeys)))
  /\ (probe.applied /\ probe.fn = "generateSOP") =>
       /\ IsText(probe.result) /\ probe.result # <<>>
       /\ StartsWith(probe.result,
            SopHeading(OwnOrInfrastructure(probe.args.issue.category,
                                           SopTemplateKeys)))

\* C18: a generation endpoint answers with an error only for a failed
\* precondition, a missing issue or an invalid request (400, 404); every
\* other failure is absorbed and the request succeeds.
C18_OnlyPreconditionErrorsSurface ==
  lastResponse.kind \in {"generateResolution", "generateSop"}
    => lastResponse.status \in {200, 400, 404}

RatingRejected == Response("rate", 400, "Rating must be between 1 and 5")

\* C19: a rating request whose rating is missing or outside 1..5 is rejected
\* and changes no table: no handler starts with such a rating, no userRating
\* is set to one, and the step that answers the rejection leaves the
\* resolutions, the knowledge base and the rating events as they were.
C19_InvalidRatingRejected ==
  [][/\ \A s \in Slots :
          (req[s].kind = "idle" /\ req'[s].kind = "rate")
            => req'[s].rating \in 1..5
     /\ \A k \in 1..Len(resolutions) :
          resolutions'[k].userRating # resolutions[k].userRating
            => resolutions'[k].userRating \in 1..5
     /\ (lastResponse' = RatingRejected /\ lastResponse # RatingRejected)
          => /\ resolutions' = resolutions
             /\ kb' = kb
             /\ ratingEvents' = ratingEvents
             /\ req' = req]_vars

\* C19's case: a rating of an existing resolution was rejected; the
\* resolution is unrated and both tables are empty
C19_Witness ==
  /\ lastResponse = RatingRejected
  /\ Len(resolutions) = 1
  /\ resolutions[1].userRating = 0
  /\ kb = <<>>
  /\ ratingEvents = 0

StatusRank(status) ==
  CASE status = "none" -> 0
    [] status = "open" -> 1
    [] status = "in_progress" -> 2
    [] status = "resolved" -> 3
    [] status = "closed" -> 4

\* C20: no step moves an issue to an earlier status of the chain
\* open -> in_progress -> resolved -> closed.
C20_StatusOnlyAdvances ==
  [][\A i \in IssueIds :
       StatusRank(issues'[i].status) >= StatusRank(issues[i].status)]_vars

(* ---------- claims about stored ratings, counts and liveness ----------- *)

\* C26: every stored KnowledgeEntry has 4 <= averageRating <= 5 in every
\* reachable state, so none is below the 3.5 floor of retrieval.
C26_StoredRatingFromFourToFive ==
  \A k \in 1..Len(kb) :
    LET a == kb[k].averageRating
    IN /\ a[2] > 0
       /\ 4 * a[2] <= a[1] /\ a[1] <= 5 * a[2]
       /\ ~FracLess(a, QualityFloor)

\* C26's case: a resolution entry promoted twice (4, then 5) whose average
\* lies strictly between the bounds, beside an entry SOP generation stored
C26_Witness ==
  /\ \E k \in 1..Len(kb) :
       kb[k].contentType = "resolution" /\ kb[k].averageRating = <<9, 2>>
  /\ \E k \in 1..Len(kb) : kb[k].contentType = "sop"

RECURSIVE JoinWords(_)
\* words.join(' ')
JoinWords(words) ==
  IF words = <<>> THEN <<>>
  ELSE IF Len(words) = 1 THEN Head(words)
  ELSE Head(words) \o <<" ">> \o JoinWords(Tail(words))

\* C23: keyword extraction is idempotent: extracting from the space-joined
\* keywords of a text gives the same keywords; no keyword is shorter than 4
\* characters or a stop-word; the empty text has no keywords.
C23_ExtractionIdempotent ==
  (probe.applied /\ probe.fn = "extractKeywords") =>
    LET keywords == probe.result
    IN /\ extractKeywordsOfText(JoinWords(keywords)) = keywords
       /\ \A k \in 1..Len(keywords) :
            /\ Len(keywords[k]) > 3
            /\ AsString(keywords[k]) \notin StopWords
       /\ probe.args.text = <<>> => keywords = <<>>

\* C23's case: "pool.ab This Pool" has a capital, punctuation inside a word
\* and a stop-word, and gives the two keywords poolab and pool
C23_Witness ==
  /\ probe.applied /\ probe.fn = "extractKeywords"
  /\ probe.args.text =
       <<"p", "o", "o", "l", ".", "a", "b", " ", "T", "h", "i", "s", " ",
         "P", "o", "o", "l">>
  /\ probe.result =
       << <<"p", "o", "o", "l", "a", "b">>, <<"p", "o", "o", "l">> >>
  /\ JoinWords(probe.result) =
       <<"p", "o", "o", "l", "a", "b", " ", "p", "o", "o", "l">>

\* a direct application of the scorer, to a query and an entry
Scored == probe.applied /\ probe.fn = "scoreEntry"

\* C24: for a query and an entry that both have no keyword the computed
\* finalScore is the number 0.3*averageRating/5 + 0.1*min(usageCount/10, 1),
\* and the entry passes the relevance floor exactly when that number is
\* above 0.1.
C24_NoKeywordsScoresRatingAndUsage ==
  (/\ Scored
   /\ extractKeywords(probe.args.query) = <<>>
   /\ extractKeywords(probe.args.entry.content) = <<>>)
  => LET a == probe.args.entry.averageRating
         value == <<6 * a[1] + Min(probe.args.entry.usageCount, 10) * a[2],
                    100 * a[2]>>
         score == probe.result.similarityScore
     IN /\ score[2] > 0
        /\ score[1] * value[2] = value[1] * score[2]
        /\ AboveFloor(probe.result) <=> 10 * value[1] > value[2]

\* C27: a candidate rated 3.5 or more whose keyword set or whose query's is
\* not empty has a finalScore of at least 0.21 and passes the relevance
\* filter; and a retrieval whose limit is not below the number of rows of its
\* content type returns every such row, whether it shares a keyword with the
\* query or not.
C27_RatedCandidateNeverFiltered ==
  /\ (/\ Scored
       /\ 2 * probe.args.entry.averageRating[1]
            >= 7 * probe.args.entry.averageRating[2]
       /\ \/ extractKeywords(probe.args.query) # <<>>
          \/ extractKeywords(probe.args.entry.content) # <<>>)
      => LET score == probe.result.similarityScore
         IN /\ score[2] > 0
            /\ 100 * score[1] >= 21 * score[2]
            /\ AboveFloor(probe.result)
  /\ (probe.applied /\ probe.fn = "retrieve") =>
        LET table == probe.args.table
            OfType == {k \in 1..Len(table) :
                         table[k].contentType = probe.args.contentType}
        IN \A k \in OfType :
             (/\ probe.args.limit >= Cardinality(OfType)
              /\ 2 * table[k].averageRating[1] >= 7 * table[k].averageRating[2]
              /\ \/ extractKeywords(probe.args.query) # <<>>
                 \/ extractKeywords(table[k].content) # <<>>)
             => \E j \in 1..Len(probe.result) : probe.result[j].id = k

\* C27's case: an entry rated 3.5 and never used that shares no keyword with
\* the query scores exactly 0.21 and comes back
C27_Witness ==
  /\ probe.applied /\ probe.fn = "retrieve"
  /\ probe.args.query = <<"restart">>
  /\ Len(probe.args.table) = 1
  /\ probe.args.table[1].content = <<"Database", "timeout">>
  /\ probe.args.table[1].averageRating = <<7, 2>>
  /\ probe.args.table[1].usageCount = 0
  /\ Len(probe.result) = 1
  /\ probe.result[1].matchedKeywords = <<>>
  /\ probe.result[1].similarityScore = <<21, 100>>

\* C30: for the same query over the same knowledge base the retrieve endpoint
\* called with contentType 'resolution' and limit 3 answers with the entries
\* the retrieval of resolution generation returns: the same ids in the same
\* order with the same scores and matched keywords, hence the same usage
\* counts to increment.
C30_EndpointEqualsEmbedded ==
  (/\ probe.applied /\ probe.fn = "retrieve"
   /\ probe.args.contentType = "resolution"
   /\ probe.args.limit = 3)
  => LET embedded ==
           retrieveRelevantContent(probe.args.table, probe.args.query)
         endpoint == [k \in 1..Len(probe.result) |->
                        responseEntry(probe.result[k])]
     IN /\ Len(endpoint) = Len(embedded)
        /\ \A k \in 1..Len(endpoint) :
             /\ endpoint[k].id = embedded[k].id
             /\ endpoint[k].similarityScore = embedded[k].similarityScore
             /\ endpoint[k].matchedKeywords = embedded[k].matchedKeywords

\* C21: once an issue that has a resolution rated 4 or more is resolved, and
\* the background trigger is on its way, an SOP for the issue is eventually
\* stored.
C21_ResolveLeadsToSop ==
  \A i \in IssueIds :
    (/\ issues[i].status = "resolved"
     /\ HighlyRated(i) # {}
     /\ pendingSop[i] > 0) ~> HasSop(i)

\* the text is the template fallback's, stored when the backend call failed;
\* whether the backend is up is no part of the state: every call made finds
\* it up or down, so it is restored whenever a later call would be answered
FromTemplate(text) == text \notin BackendTexts

\* C22: an issue whose resolution or SOP is template text eventually has a
\* resolution, respectively an SOP, with text generated by the backend.
C22_TemplateRetriedWithBackend ==
  \A i \in IssueIds :
    /\ (\E k \in 1..Len(resolutions) :
          resolutions[k].issueId = i
            /\ FromTemplate(resolutions[k].resolutionText))
         ~> (\E k \in 1..Len(resolutions) :
               resolutions[k].issueId = i
                 /\ ~FromTemplate(resolutions[k].resolutionText))
    /\ (\E k \in 1..Len(sops) :
          sops[k].issueId = i /\ FromTemplate(sops[k].sopText))
         ~> (\E k \in 1..Len(sops) :
               sops[k].issueId = i /\ ~FromTemplate(sops[k].sopText))

\* C29: whenever an issue is resolved and has a resolution rated 4 or more,
\* whichever came first, an SOP for the issue eventually exists.
C29_ResolvedAndRatedLeadsToSop ==
  \A i \in IssueIds :
    (issues[i].status = "resolved" /\ HighlyRated(i) # {}) ~> HasSop(i)

\* the handler in slot s has caught a failed read of the candidate entries
ReadFailed(r) ==
  r.kind = "generateResolution"
    /\ "Failed to retrieve relevant content" \in r.caught

\* C25: a failed read of the candidate entries during resolution generation
\* is not propagated: the retrieval step answers nothing whether its read
\* fails or not, and after a failed read goes on to the generation with an
\* empty retrieved set; the handler then stores a
\* resolution for its issue, answers 200 after the status update, and no
\* step of it changes the knowledge base.
C25_ReadFailureAbsorbed ==
  [][\A s \in Slots :
       /\ (req[s].kind = "generateResolution" /\ req[s].pc = "retrieve"
             /\ Steps(s)) =>
            /\ req'[s].pc = "generate"
            /\ UNCHANGED <<issues, resolutions, sops, kb, ratingEvents,
                           lastResponse>>
       /\ (~ReadFailed(req[s]) /\ ReadFailed(req'[s])) =>
            /\ req[s].pc = "retrieve"
            /\ req'[s].relevant = <<>>
       /\ (ReadFailed(req[s]) /\ Steps(s)) =>
            /\ kb' = kb
            /\ req[s].pc \in {"generate", "updateStatus"}
            /\ req[s].pc = "generate" =>
                 /\ req[s].relevant = <<>>
                 /\ Len(resolutions') = Len(resolutions) + 1
                 /\ resolutions'[Len(resolutions')].issueId = req[s].issueId
                 /\ req'[s].pc = "updateStatus" /\ req'[s].pending = {}
                 /\ ReadFailed(req'[s])
            /\ req[s].pc = "updateStatus" =>
                 /\ req'[s] = Blank
                 /\ lastResponse' = Response("generateResolution", 200, "")]_vars

\* C25's case: the read failed while the knowledge base held an entry the
\* retrieval would have returned; the resolution is stored all the same and
\* the entry's usageCount is the 1 it was created with
C25_Witness ==
  \E s \in Slots :
    /\ ReadFailed(req[s]) /\ req[s].pc = "updateStatus"
    /\ Len(kb) = 1 /\ kb[1].usageCount = 1
    /\ retrieveRelevantContent(kb, issues[1].title \o issues[1].description)
         # <<>>
    /\ Len(resolutions) = 2

\* C28: no step lowers the stored usageCount of a KnowledgeEntry.
C28_UsageCountNeverDecreases ==
  [][\A k \in 1..Len(kb) :
       k <= Len(kb') /\ kb'[k].usageCount >= kb[k].usageCount]_vars

====
